---- MODULE Spec2Model ----
(***************************************************************************)
(* smashquote: removal of C-like backslash escapes from byte slices.       *)
(* Model of src/src/lib.rs: unescape_iter, unescape_bytes, unhex,          *)
(* un_rust_style_u and the error constructors.                             *)
(*                                                                         *)
(* Bytes are integers 0..255.  Offsets are 0-based as in the source, so    *)
(* the byte at offset o of a sequence s is s[o + 1].  The cursor           *)
(* (Peekable<Enumerate<Iter>>) is the pair (input, pos): pos is the offset *)
(* of the next item it yields.                                             *)
(***************************************************************************)
EXTENDS Integers, Sequences, FiniteSets, TLC

VARIABLES input, close, sink_fails, pos, out, last_offset, state, result

vars == <<input, close, sink_fails, pos, out, last_offset, state, result>>

----------------------------------------------------------------------------
(* Byte literals of the source. *)

BACKSLASH == 92
QUOTE == 39
DQUOTE == 34
LBRACE == 123
RBRACE == 125
PLUS == 43
MINUS == 45
SPACE == 32

(* Option<T>: None is the empty tuple, Some(x) is <<x>>. *)
None == <<>>

Some(x) == <<x>>

IsSome(o) == o # None

Unwrap(o) == o[1]

(* The half-open slice s[from..to) with 0-based offsets. *)
Slice(s, from, to) == [i \in 1..(to - from) |-> s[from + i]]

----------------------------------------------------------------------------
(* u8::is_ascii_digit and u8::is_ascii_hexdigit *)

IsAsciiDigit(b) == b \in 48..57

IsAsciiHexDigit(b) == (b \in 48..57) \/ (b \in 65..70) \/ (b \in 97..102)

(* char::to_digit(radix) as used by from_str_radix: -1 when the byte is   *)
(* not a digit of the radix.                                               *)
ToDigit(b, radix) ==
    LET d == IF b \in 48..57 THEN b - 48
             ELSE IF b \in 97..122 THEN b - 87
             ELSE IF b \in 65..90 THEN b - 55
             ELSE radix
    IN IF d < radix THEN d ELSE -1

(* from_str_radix strips one leading '+' (never '-', the type is unsigned) *)
(* and rejects the empty string and a lone sign.                           *)
StripSign(s) ==
    IF Len(s) = 0 THEN None
    ELSE IF Len(s) = 1 /\ s[1] \in {PLUS, MINUS} THEN None
    ELSE IF s[1] = PLUS THEN Some(Tail(s))
    ELSE Some(s)

RECURSIVE U8Digits(_, _, _)
U8Digits(s, radix, acc) ==
    IF Len(s) = 0 THEN acc
    ELSE LET d == ToDigit(s[1], radix)
         IN IF d < 0 THEN -1
            ELSE IF acc * radix + d > 255 THEN -1
            ELSE U8Digits(Tail(s), radix, acc * radix + d)

(* A parse that gives 0 where from_str_radix gives Err. *)
U8FromStrRadix_ErrIsZero(s, radix) ==
    LET t == StripSign(s)
        b == IF t = None THEN -1 ELSE U8Digits(Unwrap(t), radix, 0)
    IN IF b < 0 THEN 0 ELSE b

(* u8::from_str_radix(s, radix): the byte, or -1 for Err(ParseIntError). *)
U8FromStrRadix(s, radix) ==
    LET t == StripSign(s)
    IN IF t = None THEN -1 ELSE U8Digits(Unwrap(t), radix, 0)

(* A u32 is kept as two 16-bit limbs <<hi, lo>> so that the checked        *)
(* multiply-add of from_str_radix overflows exactly at 2^32.               *)
U32Limb == 256 * 256

RECURSIVE U32Digits(_, _, _)
U32Digits(s, radix, acc) ==
    IF Len(s) = 0 THEN Some(acc)
    ELSE LET d  == ToDigit(s[1], radix)
             lo == acc[2] * radix + d
             hi == acc[1] * radix + (lo \div U32Limb)
         IN IF d < 0 THEN None
            ELSE IF hi >= U32Limb THEN None
            ELSE U32Digits(Tail(s), radix, <<hi, lo % U32Limb>>)

(* u32::from_str_radix(s, radix): Some(<<hi, lo>>) or None for Err. *)
U32FromStrRadix(s, radix) ==
    LET t == StripSign(s)
    IN IF t = None THEN None ELSE U32Digits(Unwrap(t), radix, <<0, 0>>)

(* char::from_u32 without the surrogate test. *)
CharFromU32_NoSurrogates(ord) ==
    IF ord[1] > 16 THEN None
    ELSE Some(ord[1] * U32Limb + ord[2])

(* char::from_u32: Some(scalar value) or None for a surrogate or a value   *)
(* above 0x10FFFF.                                                         *)
CharFromU32(ord) ==
    IF ord[1] > 16 THEN None
    ELSE IF ord[1] = 0 /\ ord[2] \in 55296..57343 THEN None
    ELSE Some(ord[1] * U32Limb + ord[2])

(* The character written as four bytes, big end first, whatever its size. *)
EncodeUtf8_FourBytes(c) ==
    <<c \div 16777216, (c \div 65536) % 256, (c \div 256) % 256, c % 256>>

(* String::push(char) followed by into_bytes: the UTF-8 bytes of c. *)
EncodeUtf8(c) ==
    IF c < 128 THEN <<c>>
    ELSE IF c < 2048 THEN <<192 + (c \div 64), 128 + (c % 64)>>
    ELSE IF c < 65536 THEN
        <<224 + (c \div 4096), 128 + ((c \div 64) % 64), 128 + (c % 64)>>
    ELSE <<240 + (c \div 262144), 128 + ((c \div 4096) % 64),
           128 + ((c \div 64) % 64), 128 + (c % 64)>>

----------------------------------------------------------------------------
(* UTF-8 decoding as done by String::from_utf8 and String::from_utf8_lossy *)

Get(s, i) == IF i <= Len(s) THEN s[i] ELSE 0

IsCont(b) == b \in 128..191

Utf8CharWidth(b) ==
    IF b < 128 THEN 1
    ELSE IF b \in 194..223 THEN 2
    ELSE IF b \in 224..239 THEN 3
    ELSE IF b \in 240..244 THEN 4
    ELSE 0

(* The second byte of a 3- or 4-byte sequence is range-checked against the *)
(* lead byte (no overlong forms, no surrogates, nothing above 0x10FFFF).   *)
SecondOk(b, n) ==
    IF b = 224 THEN n \in 160..191
    ELSE IF b = 237 THEN n \in 128..159
    ELSE IF b = 240 THEN n \in 144..191
    ELSE IF b = 244 THEN n \in 128..143
    ELSE IsCont(n)

(* The chunk starting at 1-based index i: a valid character cp of len      *)
(* bytes, or an invalid run of len bytes that lossy decoding replaces by   *)
(* one U+FFFD.                                                             *)
Utf8Chunk(s, i) ==
    LET b == s[i]
        w == Utf8CharWidth(b)
        n1 == Get(s, i + 1)
        n2 == Get(s, i + 2)
        n3 == Get(s, i + 3)
        Bad(n) == [valid |-> FALSE, len |-> n, cp |-> 65533]
    IN IF w = 1 THEN [valid |-> TRUE, len |-> 1, cp |-> b]
       ELSE IF w = 2 THEN
           IF ~IsCont(n1) THEN Bad(1)
           ELSE [valid |-> TRUE, len |-> 2,
                 cp |-> (b - 192) * 64 + (n1 - 128)]
       ELSE IF w = 3 THEN
           IF ~SecondOk(b, n1) THEN Bad(1)
           ELSE IF ~IsCont(n2) THEN Bad(2)
           ELSE [valid |-> TRUE, len |-> 3,
                 cp |-> (b - 224) * 4096 + (n1 - 128) * 64 + (n2 - 128)]
       ELSE IF w = 4 THEN
           IF ~SecondOk(b, n1) THEN Bad(1)
           ELSE IF ~IsCont(n2) THEN Bad(2)
           ELSE IF ~IsCont(n3) THEN Bad(3)
           ELSE [valid |-> TRUE, len |-> 4,
                 cp |-> (b - 240) * 262144 + (n1 - 128) * 4096
                        + (n2 - 128) * 64 + (n3 - 128)]
       ELSE Bad(1)

RECURSIVE Utf8ValidFrom(_, _)
Utf8ValidFrom(s, i) ==
    IF i > Len(s) THEN TRUE
    ELSE LET c == Utf8Chunk(s, i)
         IN c.valid /\ Utf8ValidFrom(s, i + c.len)

(* String::from_utf8(bytes).is_ok() *)
Utf8Valid(s) == Utf8ValidFrom(s, 1)

RECURSIVE LossyFrom(_, _)
LossyFrom(s, i) ==
    IF i > Len(s) THEN <<>>
    ELSE LET c == Utf8Chunk(s, i)
         IN <<c.cp>> \o LossyFrom(s, i + c.len)

(* String::from_utf8_lossy(bytes).chars() as a sequence of code points *)
FromUtf8Lossy(s) == LossyFrom(s, 1)

(* pretty_string: control characters and space become control pictures. *)
PrettyChar(c) ==
    IF c <= 32 THEN c + 9216
    ELSE IF c = 127 THEN 9343
    ELSE c

pretty_string(bs) ==
    LET cs == FromUtf8Lossy(bs)
    IN [i \in 1..Len(cs) |-> PrettyChar(cs[i])]

(* The upper-case hex digit character of a nibble, as format!("{:02X}"). *)
HexUpper(n) == IF n < 10 THEN 48 + n ELSE 55 + n

RECURSIVE pretty_bytes(_)
pretty_bytes(bs) ==
    IF Len(bs) = 0 THEN <<>>
    ELSE LET b == bs[1]
             h == <<HexUpper(b \div 16), HexUpper(b % 16)>>
         IN IF Len(bs) = 1 THEN h
            ELSE h \o <<SPACE>> \o pretty_bytes(Tail(bs))

----------------------------------------------------------------------------
(* The values returned by unescape_iter and the UnescapeError variants. *)

Ok(offset) == [tag |-> "Ok", offset |-> offset]

missing_close(byte) ==
    [tag |-> "MissingClose",
     string |-> pretty_string(<<byte>>),
     bytes |-> pretty_bytes(<<byte>>)]

(* An error that carries the offset of the byte after the backslash. *)
invalid_backslash_NextOffset(offset, bytes, kind) ==
    [tag |-> "InvalidBackslash",
     kind |-> kind,
     offset |-> offset + 1,
     string |-> pretty_string(bytes),
     bytes |-> pretty_bytes(bytes)]

invalid_backslash(offset, bytes, kind) ==
    [tag |-> "InvalidBackslash",
     kind |-> kind,
     offset |-> offset,
     string |-> pretty_string(bytes),
     bytes |-> pretty_bytes(bytes)]

IOError == [tag |-> "IOError"]

(* InvalidBackslashKind: a name, and the digit bytes HexDigitsNotHexDigits *)
(* carries (empty for every other kind).                                   *)
Kind(name) == [name |-> name, digits |-> <<>>]

HexDigitsNotHexDigits(digits) ==
    [name |-> "HexDigitsNotHexDigits", digits |-> digits]

(* What one escape arm did: Ok(bytes to write) or Err(error), and where it *)
(* left the cursor.                                                        *)
ArmOk(bytes, p) == [ok |-> TRUE, bytes |-> bytes, pos |-> p]

ArmErr(err, p) == [ok |-> FALSE, err |-> err, pos |-> p]

----------------------------------------------------------------------------
(* The numeric sub-decoders of unescape_iter.  inp is the whole input,     *)
(* offset the position of the backslash, p the cursor position.            *)

(* Octal lookahead: n more iterations of peek / push if digit / next. *)
RECURSIVE OctalLookahead(_, _, _, _)
OctalLookahead(inp, escape, p, n) ==
    IF n = 0 THEN [escape |-> escape, pos |-> p]
    ELSE IF p < Len(inp) THEN
        LET byte3 == inp[p + 1]
        IN OctalLookahead(inp,
               IF IsAsciiDigit(byte3) THEN Append(escape, byte3) ELSE escape,
               p + 1, n - 1)
    ELSE OctalLookahead(inp, escape, p, n - 1)

(* The octal arm with the digits parsed in base 10. *)
OctalArm_Decimal(inp, offset) ==
    LET la    == OctalLookahead(inp, <<BACKSLASH, inp[offset + 2]>>,
                                offset + 2, 2)
        octal == Tail(la.escape)
        b     == U8FromStrRadix(octal, 10)
    IN IF b < 0 THEN
           ArmErr(invalid_backslash(offset, la.escape,
                                    Kind("OctalDigitsNotOctalDigits")), la.pos)
       ELSE ArmOk(<<b>>, la.pos)

OctalArm(inp, offset) ==
    LET la    == OctalLookahead(inp, <<BACKSLASH, inp[offset + 2]>>,
                                offset + 2, 2)
        octal == Tail(la.escape)
        b     == U8FromStrRadix(octal, 8)
    IN IF ~Utf8Valid(octal) THEN
           ArmErr(invalid_backslash(offset, la.escape,
                                    Kind("OctalDigitsNotUnicode")), la.pos)
       ELSE IF b < 0 THEN
           ArmErr(invalid_backslash(offset, la.escape,
                                    Kind("OctalDigitsNotOctalDigits")), la.pos)
       ELSE ArmOk(<<b>>, la.pos)

(* \x lookahead: n more iterations of peek / push if hex digit / next. *)
RECURSIVE HexLookahead(_, _, _, _)
HexLookahead(inp, escape, p, n) ==
    IF n = 0 THEN [escape |-> escape, pos |-> p]
    ELSE IF p < Len(inp) THEN
        LET byte3 == inp[p + 1]
        IN HexLookahead(inp,
               IF IsAsciiHexDigit(byte3) THEN Append(escape, byte3)
               ELSE escape,
               p + 1, n - 1)
    ELSE HexLookahead(inp, escape, p, n - 1)

(* The \x arm looking ahead one byte instead of two. *)
HexArm_OneDigit(inp, offset) ==
    LET la  == HexLookahead(inp, <<BACKSLASH, inp[offset + 2]>>,
                            offset + 2, 1)
        hex == Slice(la.escape, 2, Len(la.escape))
        b   == U8FromStrRadix(hex, 16)
    IN IF Len(la.escape) = 2 THEN
           ArmErr(invalid_backslash(offset, la.escape,
                                    Kind("HexDigitsNoDigits")), la.pos)
       ELSE IF b < 0 THEN
           ArmErr(invalid_backslash(offset, la.escape,
                                    HexDigitsNotHexDigits(hex)), la.pos)
       ELSE ArmOk(<<b>>, la.pos)

HexArm(inp, offset) ==
    LET la  == HexLookahead(inp, <<BACKSLASH, inp[offset + 2]>>,
                            offset + 2, 2)
        hex == Slice(la.escape, 2, Len(la.escape))
        b   == U8FromStrRadix(hex, 16)
    IN IF Len(la.escape) = 2 THEN
           ArmErr(invalid_backslash(offset, la.escape,
                                    Kind("HexDigitsNoDigits")), la.pos)
       ELSE IF ~Utf8Valid(hex) THEN
           ArmErr(invalid_backslash(offset, la.escape,
                                    Kind("HexDigitsNotUnicode")), la.pos)
       ELSE IF b < 0 THEN
           ArmErr(invalid_backslash(offset, la.escape,
                                    HexDigitsNotHexDigits(hex)), la.pos)
       ELSE ArmOk(<<b>>, la.pos)

(* unhex: escape[start..=end] (or escape[start..]) parsed as a hex code    *)
(* point and encoded as UTF-8.                                             *)
unhex(offset, escape, start, end) ==
    LET range == IF IsSome(end) THEN Slice(escape, start, Unwrap(end) + 1)
                 ELSE Slice(escape, start, Len(escape))
        ord   == U32FromStrRadix(range, 16)
        ch    == CharFromU32(Unwrap(ord))
    IN IF ~Utf8Valid(range) THEN
           [ok |-> FALSE,
            err |-> invalid_backslash(offset, escape,
                                      Kind("HexDigitsNotUnicode"))]
       ELSE IF ord = None THEN
           [ok |-> FALSE,
            err |-> invalid_backslash(offset, escape,
                                      HexDigitsNotHexDigits(range))]
       ELSE IF ch = None THEN
           [ok |-> FALSE,
            err |-> invalid_backslash(offset, escape,
                                      Kind("UnicodeEscapeBadCodepoint"))]
       ELSE [ok |-> TRUE, bytes |-> EncodeUtf8(Unwrap(ch))]

(* The offset of the first '}' at or after p, or Len(inp) when none. *)
RECURSIVE FindCloseBrace(_, _)
FindCloseBrace(inp, p) ==
    IF p >= Len(inp) THEN Len(inp)
    ELSE IF inp[p + 1] = RBRACE THEN p
    ELSE FindCloseBrace(inp, p + 1)

(* un_rust_style_u with the digit range running up to the close brace. *)
un_rust_style_u_EndOffByOne(inp, p, offset, escape0) ==
    LET q           == FindCloseBrace(inp, p)
        found_close == q < Len(inp)
        newpos      == IF found_close THEN q + 1 ELSE Len(inp)
        escape      == escape0 \o Slice(inp, p, newpos)
        end         == Len(escape) - 1
        start       == 3
        r           == unhex(offset, escape, start, Some(end))
    IN IF ~found_close THEN
           ArmErr(invalid_backslash(offset, escape,
                      Kind("RustStyleUnicodeMissingCloseBrace")), newpos)
       ELSE IF end = start THEN
           ArmErr(invalid_backslash(offset, escape,
                      Kind("RustStyleUnicodeMissingDigits")), newpos)
       ELSE IF r.ok THEN ArmOk(r.bytes, newpos)
       ELSE ArmErr(r.err, newpos)

(* un_rust_style_u: escape holds \u{ and the cursor stands at p. *)
un_rust_style_u(inp, p, offset, escape0) ==
    LET q           == FindCloseBrace(inp, p)
        found_close == q < Len(inp)
        newpos      == IF found_close THEN q + 1 ELSE Len(inp)
        escape      == escape0 \o Slice(inp, p, newpos)
        end         == Len(escape) - 2
        start       == 3
        r           == unhex(offset, escape, start, Some(end))
    IN IF ~found_close THEN
           ArmErr(invalid_backslash(offset, escape,
                      Kind("RustStyleUnicodeMissingCloseBrace")), newpos)
       ELSE IF end = start - 1 THEN
           ArmErr(invalid_backslash(offset, escape,
                      Kind("RustStyleUnicodeMissingDigits")), newpos)
       ELSE IF r.ok THEN ArmOk(r.bytes, newpos)
       ELSE ArmErr(r.err, newpos)

(* \u and \U lookahead: the pushed byte is guarded by a test of byte3, the *)
(* first digit, not of the peeked byte4.                                   *)
RECURSIVE UnicodeLookahead(_, _, _, _, _)
UnicodeLookahead(inp, escape, p, byte3, n) ==
    IF n = 0 THEN [escape |-> escape, pos |-> p]
    ELSE IF p < Len(inp) THEN
        LET byte4 == inp[p + 1]
        IN UnicodeLookahead(inp,
               IF IsAsciiHexDigit(byte3) THEN Append(escape, byte4)
               ELSE escape,
               p + 1, byte3, n - 1)
    ELSE UnicodeLookahead(inp, escape, p, byte3, n - 1)

(* The unbraced tail shared by \u (more = 3) and \U (more = 7). *)
UnicodeDigits(inp, offset, escape, byte3, more) ==
    LET la == UnicodeLookahead(inp, escape, offset + 3, byte3, more)
        r  == unhex(offset, la.escape, 2, None)
    IN IF ~IsAsciiHexDigit(byte3) THEN
           ArmErr(invalid_backslash(offset, escape,
                                    Kind("UnicodeEscapeNoDigits")), offset + 3)
       ELSE IF r.ok THEN ArmOk(r.bytes, la.pos)
       ELSE ArmErr(r.err, la.pos)

LowerUArm(inp, offset) ==
    LET escape2 == <<BACKSLASH, inp[offset + 2]>>
    IN IF offset + 2 >= Len(inp) THEN
           ArmErr(invalid_backslash(offset, escape2,
                      Kind("UnicodeEscapeEndOfString")), offset + 2)
       ELSE LET byte3  == inp[offset + 3]
                escape == Append(escape2, byte3)
            IN IF byte3 = LBRACE THEN
                   un_rust_style_u(inp, offset + 3, offset, escape)
               ELSE UnicodeDigits(inp, offset, escape, byte3, 3)

UpperUArm(inp, offset) ==
    LET escape2 == <<BACKSLASH, inp[offset + 2]>>
    IN IF offset + 2 >= Len(inp) THEN
           ArmErr(invalid_backslash(offset, escape2,
                      Kind("UnicodeEscapeEndOfString")), offset + 2)
       ELSE LET byte3 == inp[offset + 3]
            IN UnicodeDigits(inp, offset, Append(escape2, byte3), byte3, 7)

(* The control key with one offset for both ranges. *)
ControlKey_OneOffset(byte3) ==
    IF byte3 \in 64..126 THEN byte3 - 64 ELSE -1

(* The control byte of a \c key, or -1 for a key outside both ranges. *)
ControlKey(byte3) ==
    IF byte3 \in 64..95 THEN byte3 - 64
    ELSE IF byte3 \in 96..126 THEN byte3 - 96
    ELSE -1

ControlArm(inp, offset) ==
    LET escape2 == <<BACKSLASH, inp[offset + 2]>>
    IN IF offset + 2 >= Len(inp) THEN
           ArmErr(invalid_backslash(offset, escape2,
                      Kind("ControlEscapeEndOfString")), offset + 2)
       ELSE LET byte3 == inp[offset + 3]
                key   == ControlKey(byte3)
            IN IF key < 0 THEN
                   ArmErr(invalid_backslash(offset, Append(escape2, byte3),
                              Kind("ControlEscapeBadKey")), offset + 3)
               ELSE ArmOk(<<key>>, offset + 3)

(* The fixed single-byte escapes: trigger byte -> byte written. *)
FixedTriggers == {97, 98, 101, 69, 102, 110, 114, 116, 118,
                  QUOTE, DQUOTE, BACKSLASH}

FixedEscape(byte2) ==
    CASE byte2 = 97 -> 7
      [] byte2 = 98 -> 8
      [] byte2 \in {101, 69} -> 27
      [] byte2 = 102 -> 12
      [] byte2 = 110 -> 10
      [] byte2 = 114 -> 13
      [] byte2 = 116 -> 9
      [] byte2 = 118 -> 11
      [] byte2 = QUOTE -> QUOTE
      [] byte2 = DQUOTE -> DQUOTE
      [] byte2 = BACKSLASH -> BACKSLASH

FixedArm(inp, offset) == ArmOk(<<FixedEscape(inp[offset + 2])>>, offset + 2)

UnknownArm(inp, offset) ==
    ArmErr(invalid_backslash(offset, <<BACKSLASH, inp[offset + 2]>>,
                             Kind("BackslashEscapeUnknown")), offset + 2)

(* Every byte2 that some arm of the match other than the default takes. *)
KnownTriggers == FixedTriggers \cup (48..57) \cup {120, 117, 85, 99}

(* The match on byte2: the arm that takes the escape whose backslash is at *)
(* offset, a byte2 following it.                                           *)
EscapeArm(inp, offset) ==
    LET byte2 == inp[offset + 2]
    IN IF byte2 \in FixedTriggers THEN FixedArm(inp, offset)
       ELSE IF byte2 \in 48..57 THEN OctalArm(inp, offset)
       ELSE IF byte2 = 120 THEN HexArm(inp, offset)
       ELSE IF byte2 = 117 THEN LowerUArm(inp, offset)
       ELSE IF byte2 = 85 THEN UpperUArm(inp, offset)
       ELSE IF byte2 = 99 THEN ControlArm(inp, offset)
       ELSE UnknownArm(inp, offset)

----------------------------------------------------------------------------
(* Inputs.  Every byte sequence is a possible input; the model draws the   *)
(* input from all sequences over Alphabet up to MaxLen bytes, from the     *)
(* complete escapes of Prefixes followed by up to MaxSuffix such bytes,    *)
(* and from the formatted escapes that the tests of src/src/tests.rs feed  *)
(* to unescape_bytes.                                                      *)

MaxLen == 4

MaxSuffix == 3

Alphabet == {BACKSLASH, QUOTE, 48, 52, 120, 117, 113, LBRACE, RBRACE}

RECURSIVE SeqsUpTo(_, _)
SeqsUpTo(S, n) ==
    IF n = 0 THEN {<<>>}
    ELSE LET shorter == SeqsUpTo(S, n - 1)
         IN shorter \cup {Append(s, b) : s \in {t \in shorter : Len(t) = n - 1},
                                         b \in S}

GeneralInputs == SeqsUpTo(Alphabet, MaxLen)

(* \0  \x4  \u4  \U4  \c@  \u{4}  \n  and the plain byte q *)
Prefixes == {<<BACKSLASH, 48>>, <<BACKSLASH, 120, 52>>,
             <<BACKSLASH, 117, 52>>, <<BACKSLASH, 85, 52>>,
             <<BACKSLASH, 99, 64>>,
             <<BACKSLASH, 117, LBRACE, 52, RBRACE>>,
             <<BACKSLASH, 110>>, <<113>>}

PrefixedInputs == {e \o t : e \in Prefixes, t \in SeqsUpTo(Alphabet, MaxSuffix)}

(* The digit character of d < 36, lower or upper case. *)
DigitChar(d, upper) ==
    IF d < 10 THEN 48 + d ELSE IF upper THEN 55 + d ELSE 87 + d

(* format!("{:o}"), "{:x}", "{:X}": the digits of v without padding. *)
RECURSIVE FormatRadix(_, _, _)
FormatRadix(v, radix, upper) ==
    IF v < radix THEN <<DigitChar(v, upper)>>
    ELSE Append(FormatRadix(v \div radix, radix, upper),
                DigitChar(v % radix, upper))

(* format!("{:0w$o}") and so on: zero-padded on the left to width w. *)
FormatPadded(v, radix, upper, w) ==
    LET d == FormatRadix(v, radix, upper)
    IN IF Len(d) >= w THEN d
       ELSE [i \in 1..(w - Len(d)) |-> 48] \o d

OctalInputs ==
    {<<BACKSLASH>> \o FormatPadded(v, 8, FALSE, w) : v \in 0..255, w \in 1..3}

HexInputs ==
    {<<BACKSLASH, 120>> \o FormatPadded(v, 16, up, w) :
        v \in 0..255, up \in BOOLEAN, w \in 1..2}

(* Code points: a dense range from 0 and the values around every boundary  *)
(* of the UTF-8 encoding, of the surrogate range and of the scalar range.  *)
MaxDense == 300

MaxBraceDigits == 9

BoundaryCodePoints ==
    {2047, 2048, 4095, 4096, 55295, 55296, 56000, 57343, 57344, 65533,
     65535, 65536, 128512, 1048575, 1048576, 1114111, 1114112, 2147483647}

CodePoints == (0..MaxDense) \cup BoundaryCodePoints

(* Digit strings of values that do not fit a 31-bit integer:               *)
(* 80000000, FFFFFFFF, 100000000                                           *)
BigHexStrings == {<<56, 48, 48, 48, 48, 48, 48, 48>>,
                  <<70, 70, 70, 70, 70, 70, 70, 70>>,
                  <<49, 48, 48, 48, 48, 48, 48, 48, 48>>}

LowerUInputs ==
    {<<BACKSLASH, 117>> \o FormatPadded(c, 16, up, w) :
        c \in {x \in CodePoints : x <= 65535}, up \in BOOLEAN, w \in 1..4}

UpperUInputs ==
    {<<BACKSLASH, 85>> \o FormatPadded(c, 16, up, w) :
        c \in CodePoints, up \in BOOLEAN, w \in 1..8}
    \cup {<<BACKSLASH, 85>> \o d : d \in {b \in BigHexStrings : Len(b) <= 8}}

BracedInputs ==
    {<<BACKSLASH, 117, LBRACE>> \o FormatPadded(c, 16, up, w) \o <<RBRACE>> :
        c \in CodePoints, up \in BOOLEAN, w \in 1..MaxBraceDigits}
    \cup {<<BACKSLASH, 117, LBRACE>> \o d \o <<RBRACE>> : d \in BigHexStrings}

ControlInputs ==
    {<<BACKSLASH, 99, x>> : x \in 0..255} \cup {<<BACKSLASH, 99>>}

(* Braced escapes with arbitrary content: signs, a hex digit, a letter     *)
(* that is no hex digit, a byte that is not UTF-8 and the two bytes of the *)
(* character U+00E9, closed by a brace and followed by nothing or by q.    *)
MaxBraceContent == 3

BraceAlphabet == {PLUS, MINUS, 52, 113, 255, 195, 169}

BraceContentInputs ==
    {<<BACKSLASH, 117, LBRACE>> \o t \o <<RBRACE>> \o tail :
        t \in SeqsUpTo(BraceAlphabet, MaxBraceContent),
        tail \in {<<>>, <<113>>}}

Inputs ==
    GeneralInputs \cup PrefixedInputs \cup OctalInputs \cup HexInputs
    \cup LowerUInputs \cup UpperUInputs \cup BracedInputs \cup ControlInputs
    \cup BraceContentInputs

(* No delimiter, the quote, and a delimiter that is also a digit. *)
Closes == {None, Some(QUOTE), Some(48)}

----------------------------------------------------------------------------
(* unescape_iter as a state machine: one action per way an iteration of    *)
(* the scan loop can go, and one for the exhausted cursor.                 *)

Init ==
    /\ input \in Inputs
    /\ close \in Closes
    /\ sink_fails \in BOOLEAN
    /\ pos = 0
    /\ out = <<>>
    /\ last_offset = None
    /\ state = "Scanning"
    /\ result = [tag |-> "None"]

(* The scan loop took a backslash and a byte2 in S follows it. *)
AtEscape(S) ==
    /\ state = "Scanning"
    /\ pos + 1 < Len(input)
    /\ input[pos + 1] = BACKSLASH
    /\ input[pos + 2] \in S

(* A loop that records the offset of the last byte it consumed. *)
WriteAndContinue_LastConsumed(bytes, newpos) ==
    /\ pos' = newpos
    /\ IF sink_fails
       THEN /\ state' = "Failed"
            /\ result' = IOError
            /\ UNCHANGED <<out, last_offset>>
       ELSE /\ out' = out \o bytes
            /\ last_offset' = Some(newpos - 1)
            /\ UNCHANGED <<state, result>>
    /\ UNCHANGED <<input, close, sink_fails>>

(* out.write(bytes)?, then last_offset = Some(offset) at the loop's end. *)
WriteAndContinue(bytes, newpos) ==
    /\ pos' = newpos
    /\ IF sink_fails
       THEN /\ state' = "Failed"
            /\ result' = IOError
            /\ UNCHANGED <<out, last_offset>>
       ELSE /\ out' = out \o bytes
            /\ last_offset' = Some(pos)
            /\ UNCHANGED <<state, result>>
    /\ UNCHANGED <<input, close, sink_fails>>

(* The rest of the iteration once the escape arm has produced r. *)
FinishArm(r) ==
    IF r.ok THEN WriteAndContinue(r.bytes, r.pos)
    ELSE /\ state' = "Failed"
         /\ result' = r.err
         /\ pos' = r.pos
         /\ UNCHANGED <<input, close, sink_fails, out, last_offset>>

FixedStep == AtEscape(FixedTriggers) /\ FinishArm(FixedArm(input, pos))

OctalStep == AtEscape(48..57) /\ FinishArm(OctalArm(input, pos))

HexStep == AtEscape({120}) /\ FinishArm(HexArm(input, pos))

LowerUStep == AtEscape({117}) /\ FinishArm(LowerUArm(input, pos))

UpperUStep == AtEscape({85}) /\ FinishArm(UpperUArm(input, pos))

ControlStep == AtEscape({99}) /\ FinishArm(ControlArm(input, pos))

UnknownStep ==
    /\ AtEscape((0..255) \ KnownTriggers)
    /\ FinishArm(UnknownArm(input, pos))

(* A backslash is the last byte: the error value is built and dropped, and *)
(* the iteration ends like any other.                                      *)
BackslashEndStep ==
    /\ state = "Scanning"
    /\ pos + 1 = Len(input)
    /\ input[pos + 1] = BACKSLASH
    /\ pos' = pos + 1
    /\ last_offset' = Some(pos)
    /\ UNCHANGED <<input, close, sink_fails, out, state, result>>

CloseStep ==
    /\ state = "Scanning"
    /\ pos < Len(input)
    /\ input[pos + 1] # BACKSLASH
    /\ IsSome(close) /\ input[pos + 1] = Unwrap(close)
    /\ state' = "Done"
    /\ result' = Ok(pos)
    /\ pos' = pos + 1
    /\ UNCHANGED <<input, close, sink_fails, out, last_offset>>

PlainStep ==
    /\ state = "Scanning"
    /\ pos < Len(input)
    /\ input[pos + 1] # BACKSLASH
    /\ ~(IsSome(close) /\ input[pos + 1] = Unwrap(close))
    /\ WriteAndContinue(<<input[pos + 1]>>, pos + 1)

(* The cursor is exhausted: MissingClose, or Ok(last_offset.unwrap()),     *)
(* which panics when no iteration set last_offset.                         *)
ExhaustedStep ==
    /\ state = "Scanning"
    /\ pos = Len(input)
    /\ IF IsSome(close)
       THEN /\ state' = "Failed"
            /\ result' = missing_close(Unwrap(close))
       ELSE IF last_offset = None
       THEN /\ state' = "Panicked"
            /\ result' = [tag |-> "Panic"]
       ELSE /\ state' = "Done"
            /\ result' = Ok(Unwrap(last_offset))
    /\ UNCHANGED <<input, close, sink_fails, pos, out, last_offset>>

Next ==
    \/ FixedStep
    \/ OctalStep
    \/ HexStep
    \/ LowerUStep
    \/ UpperUStep
    \/ ControlStep
    \/ UnknownStep
    \/ BackslashEndStep
    \/ CloseStep
    \/ PlainStep
    \/ ExhaustedStep

Spec == Init /\ [][Next]_vars

(* The call has returned (or unwound). *)
Returned == state \in {"Done", "Failed", "Panicked"}

(* unescape_bytes(input): the run with a Vec sink and no close delimiter;  *)
(* Ok carries the buffer, Err the error of unescape_iter.                  *)
IsUnescapeBytes == close = None /\ ~sink_fails

unescape_bytes ==
    IF result.tag = "Ok" THEN [tag |-> "Ok", buffer |-> out] ELSE result

----------------------------------------------------------------------------
(* Vocabulary of the properties.  It is independent of the decoder above:  *)
(* the value a digit string denotes, and where the escape sequences of an  *)
(* input lie according to the documented grammar.                          *)

IsScalarValue(c) == c \in 0..1114111 /\ c \notin 55296..57343

DigitValue(b) ==
    IF b \in 48..57 THEN b - 48
    ELSE IF b \in 97..102 THEN b - 87
    ELSE IF b \in 65..70 THEN b - 55
    ELSE 99

AllDigits(digs, radix) == \A i \in 1..Len(digs) : DigitValue(digs[i]) < radix

(* The number a digit string denotes, saturating at cap. *)
RECURSIVE Denoted(_, _, _)
Denoted(digs, radix, cap) ==
    IF Len(digs) = 0 THEN 0
    ELSE LET front == Denoted(SubSeq(digs, 1, Len(digs) - 1), radix, cap)
             v     == front * radix + DigitValue(digs[Len(digs)])
         IN IF front >= cap \/ v >= cap THEN cap ELSE v

(* bs is the UTF-8 encoding of c: it decodes to c as one whole character. *)
IsUtf8Of(bs, c) ==
    /\ Len(bs) \in 1..4
    /\ LET ch == Utf8Chunk(bs, 1)
       IN ch.valid /\ ch.len = Len(bs) /\ ch.cp = c

(* The run is a call of unescape_bytes that has returned. *)
BytesReturned == Returned /\ IsUnescapeBytes

BytesOk(buffer) == unescape_bytes = [tag |-> "Ok", buffer |-> buffer]

IsInvalidBackslash(name, offset) ==
    /\ result.tag = "InvalidBackslash"
    /\ result.kind.name = name
    /\ result.offset = offset

(* The number of digits of the radix, at most max, starting at offset p. *)
RECURSIVE DigitRun(_, _, _, _)
DigitRun(inp, p, radix, max) ==
    IF max = 0 \/ p >= Len(inp) THEN 0
    ELSE IF DigitValue(inp[p + 1]) >= radix THEN 0
    ELSE 1 + DigitRun(inp, p + 1, radix, max - 1)

(* The offset just past the escape sequence that starts with the backslash *)
(* at offset i, or -1 when no well-formed escape starts there: a numeric   *)
(* escape takes the digits of its alphabet up to its maximum count and     *)
(* leaves the first other byte alone.                                      *)
EscapeEnd(inp, i) ==
    IF i + 1 >= Len(inp) THEN -1
    ELSE LET byte2 == inp[i + 2]
         IN IF byte2 \in FixedTriggers THEN i + 2
            ELSE IF byte2 \in 48..57 THEN
                LET n == 1 + DigitRun(inp, i + 2, 8, 2)
                    digs == Slice(inp, i + 1, i + 1 + n)
                IN IF AllDigits(digs, 8) /\ Denoted(digs, 8, 256) < 256
                   THEN i + 1 + n ELSE -1
            ELSE IF byte2 = 120 THEN
                LET n == DigitRun(inp, i + 2, 16, 2)
                IN IF n = 0 THEN -1 ELSE i + 2 + n
            ELSE IF byte2 = 117 /\ i + 2 < Len(inp) /\ inp[i + 3] = LBRACE THEN
                LET q == FindCloseBrace(inp, i + 3)
                    digs == Slice(inp, i + 3, q)
                IN IF q < Len(inp) /\ Len(digs) > 0 /\ AllDigits(digs, 16)
                      /\ IsScalarValue(Denoted(digs, 16, 1114112))
                   THEN q + 1 ELSE -1
            ELSE IF byte2 \in {117, 85} THEN
                LET n == DigitRun(inp, i + 2, 16, IF byte2 = 117 THEN 4 ELSE 8)
                    digs == Slice(inp, i + 2, i + 2 + n)
                IN IF n > 0
                      /\ IsScalarValue(Denoted(digs, 16, 1114112))
                   THEN i + 2 + n ELSE -1
            ELSE IF byte2 = 99 THEN
                IF i + 2 < Len(inp) /\ inp[i + 3] \in 64..126
                THEN i + 3 ELSE -1
            ELSE -1

(* The first thing a scan of inp from offset i meets: an unescaped close   *)
(* delimiter ("close"), a backslash that starts no well-formed escape      *)
(* ("invalid"), or the end of the input ("end"), and the offset of it.     *)
RECURSIVE FirstEvent(_, _, _)
FirstEvent(inp, d, i) ==
    IF i >= Len(inp) THEN [what |-> "end", at |-> i]
    ELSE IF inp[i + 1] = BACKSLASH THEN
        LET e == EscapeEnd(inp, i)
        IN IF e < 0 THEN [what |-> "invalid", at |-> i]
           ELSE FirstEvent(inp, d, e)
    ELSE IF IsSome(d) /\ inp[i + 1] = Unwrap(d) THEN [what |-> "close", at |-> i]
    ELSE FirstEvent(inp, d, i + 1)

Event == FirstEvent(input, close, 0)

----------------------------------------------------------------------------
(* C1: for every byte value v, unescape_bytes of a backslash followed by   *)
(* the octal digits of v, unpadded or zero-padded up to 3 digits, as the   *)
(* whole input returns Ok of exactly the one byte v.                       *)
C1_OctalRoundTrip ==
    (BytesReturned /\ Len(input) \in 2..4 /\ input[1] = BACKSLASH
        /\ AllDigits(Tail(input), 8))
    => LET digs == Tail(input)
           v    == Denoted(digs, 8, 512)
       IN (v <= 255 /\ \E w \in 1..3 : digs = FormatPadded(v, 8, FALSE, w))
          => BytesOk(<<v>>)

(* \377 has been decoded to the byte 255, \007 to the byte 7 *)
C1_Witness ==
    /\ BytesReturned
    /\ \/ input = <<BACKSLASH, 51, 55, 55>> /\ BytesOk(<<255>>)
       \/ input = <<BACKSLASH, 48, 48, 55>> /\ BytesOk(<<7>>)

(* C2: for every byte value v, unescape_bytes of \x followed by the hex    *)
(* digits of v, unpadded or zero-padded to 2 digits, as the whole input    *)
(* returns Ok of exactly the one byte v.                                   *)
C2_HexRoundTrip ==
    (BytesReturned /\ Len(input) \in 3..4 /\ input[1] = BACKSLASH
        /\ input[2] = 120 /\ AllDigits(Slice(input, 2, Len(input)), 16))
    => LET digs == Slice(input, 2, Len(input))
           v    == Denoted(digs, 16, 512)
       IN (\E w \in 1..2, up \in BOOLEAN : digs = FormatPadded(v, 16, up, w))
          => BytesOk(<<v>>)

(* \xff has been decoded to the byte 255, \x0A to the byte 10 *)
C2_Witness ==
    /\ BytesReturned
    /\ \/ input = <<BACKSLASH, 120, 102, 102>> /\ BytesOk(<<255>>)
       \/ input = <<BACKSLASH, 120, 48, 65>> /\ BytesOk(<<10>>)

(* C3: unescape_bytes of \u followed by 1 to 4 hex digits, or of \U        *)
(* followed by 1 to 8 hex digits, as the whole input returns Ok of exactly *)
(* the UTF-8 encoding of the scalar value the digits denote, and returns   *)
(* Err(UnicodeEscapeBadCodepoint) when they denote a surrogate or a value  *)
(* above 0x10FFFF.                                                         *)
C3_UnicodeHex ==
    (BytesReturned /\ Len(input) >= 3 /\ input[1] = BACKSLASH
        /\ input[2] \in {117, 85}
        /\ Len(input) - 2 <= (IF input[2] = 117 THEN 4 ELSE 8)
        /\ AllDigits(Slice(input, 2, Len(input)), 16))
    => LET c == Denoted(Slice(input, 2, Len(input)), 16, 1114112)
       IN IF IsScalarValue(c)
          THEN unescape_bytes.tag = "Ok" /\ IsUtf8Of(unescape_bytes.buffer, c)
          ELSE IsInvalidBackslash("UnicodeEscapeBadCodepoint", 0)

(* \uffff gave EF BF BF, \U0010FFFF gave F4 8F BF BF, \ud800 and \U110000  *)
(* and \UFFFFFFFF were rejected as bad code points                         *)
C3_Witness ==
    /\ BytesReturned
    /\ \/ input = <<BACKSLASH, 117, 102, 102, 102, 102>>
          /\ BytesOk(<<239, 191, 191>>)
       \/ input = <<BACKSLASH, 85, 48, 48, 49, 48, 70, 70, 70, 70>>
          /\ BytesOk(<<244, 143, 191, 191>>)
       \/ input = <<BACKSLASH, 117, 100, 56, 48, 48>>
          /\ IsInvalidBackslash("UnicodeEscapeBadCodepoint", 0)
       \/ input = <<BACKSLASH, 85, 49, 49, 48, 48, 48, 48>>
          /\ IsInvalidBackslash("UnicodeEscapeBadCodepoint", 0)
       \/ input = <<BACKSLASH, 85, 70, 70, 70, 70, 70, 70, 70, 70>>
          /\ IsInvalidBackslash("UnicodeEscapeBadCodepoint", 0)

(* C4: unescape_bytes of \u{ + hex digits + } as the whole input, with any *)
(* number of digits and leading zeros, returns Ok of exactly the UTF-8     *)
(* encoding of the scalar value the digits denote, and returns Err when    *)
(* they denote a surrogate or a value above 0x10FFFF.                      *)
C4_BracedUnicode ==
    (BytesReturned /\ Len(input) >= 5 /\ input[1] = BACKSLASH
        /\ input[2] = 117 /\ input[3] = LBRACE /\ input[Len(input)] = RBRACE
        /\ AllDigits(Slice(input, 3, Len(input) - 1), 16))
    => LET c == Denoted(Slice(input, 3, Len(input) - 1), 16, 1114112)
       IN IF IsScalarValue(c)
          THEN unescape_bytes.tag = "Ok" /\ IsUtf8Of(unescape_bytes.buffer, c)
          ELSE unescape_bytes.tag \in {"InvalidBackslash"}

(* \u{1f600} gave F0 9F 98 80, \u{000000041} gave 41, \u{dfff} and         *)
(* \u{100000000} were rejected                                             *)
C4_Witness ==
    /\ BytesReturned
    /\ \/ input = <<BACKSLASH, 117, LBRACE, 49, 102, 54, 48, 48, RBRACE>>
          /\ BytesOk(<<240, 159, 152, 128>>)
       \/ input = <<BACKSLASH, 117, LBRACE, 48, 48, 48, 48, 48, 48, 48, 52, 49,
                    RBRACE>>
          /\ BytesOk(<<65>>)
       \/ input = <<BACKSLASH, 117, LBRACE, 100, 102, 102, 102, RBRACE>>
          /\ result.tag = "InvalidBackslash"
       \/ input = <<BACKSLASH, 117, LBRACE, 49, 48, 48, 48, 48, 48, 48, 48, 48,
                    RBRACE>>
          /\ result.tag = "InvalidBackslash"

(* C5: for every key x in '@'..'~', unescape_bytes of \c followed by x     *)
(* returns Ok of the single byte x & 0x1F, a control byte in 0..0x1F, and  *)
(* the key x + 0x20 of the other case decodes to the same byte.            *)
C5_ControlKey ==
    (BytesReturned /\ Len(input) = 3 /\ input[1] = BACKSLASH
        /\ input[2] = 99 /\ input[3] \in 64..126)
    => LET x == input[3]
       IN /\ BytesOk(<<x % 32>>)
          /\ out[1] \in 0..31
          /\ (x + 32 <= 126 => ControlArm(<<BACKSLASH, 99, x + 32>>, 0).bytes = out)
          /\ (x - 32 >= 64 => ControlArm(<<BACKSLASH, 99, x - 32>>, 0).bytes = out)

(* \cA and \ca both gave the byte 1, \c~ gave 0x1E *)
C5_Witness ==
    /\ BytesReturned
    /\ \/ input = <<BACKSLASH, 99, 65>> /\ BytesOk(<<1>>)
       \/ input = <<BACKSLASH, 99, 97>> /\ BytesOk(<<1>>)
       \/ input = <<BACKSLASH, 99, 126>> /\ BytesOk(<<30>>)

(* C6: a backslash that is the last byte of the input, met by the scan as  *)
(* the start of an escape, makes the call return Err with the kind         *)
(* BackslashEndOfString and the offset of that backslash, never Ok.        *)
(* Stated for the inputs whose only backslash is the last byte, so that no *)
(* other escape stands between the scan and that backslash.                *)
C6_TrailingBackslashFails ==
    (Returned /\ ~sink_fails /\ Event.what = "invalid"
        /\ Event.at = Len(input) - 1
        /\ \A i \in 1..(Len(input) - 1) : input[i] # BACKSLASH)
    => IsInvalidBackslash("BackslashEndOfString", Len(input) - 1)

(* C7: with close = Some(d) the scan stops at the first d that is not part *)
(* of an escape sequence, whatever precedes it: the call returns Ok of the *)
(* offset of that d, nothing from d onwards is written, and the cursor     *)
(* next yields the byte after d.                                           *)
C7_StopsAtFirstUnescapedClose ==
    (Returned /\ ~sink_fails /\ IsSome(close) /\ Event.what = "close")
    => /\ result = Ok(Event.at)
       /\ pos = Event.at + 1
       /\ Len(out) <= Event.at

(* C8: with no close delimiter and an empty input the call returns Ok(0)   *)
(* with nothing written; it does not crash.                                *)
C8_EmptyInputOk ==
    (Returned /\ input = <<>> /\ close = None)
    => /\ state = "Done"
       /\ result = Ok(0)
       /\ out = <<>>

(* The bytes C9 lists as the known escape triggers:                        *)
(* a b e E f n r t v \ ' " 0-9 x u U c                                     *)
ListedTriggers ==
    {97, 98, 101, 69, 102, 110, 114, 116, 118, 92, 39, 34}
    \cup (48..57) \cup {120, 117, 85, 99}

(* C9: a backslash that starts an escape and is followed by a byte outside *)
(* the listed triggers makes the call return Err with the kind             *)
(* BackslashEscapeUnknown and the offset of that backslash.                *)
C9_UnknownEscapeFails ==
    (Returned /\ ~sink_fails /\ Event.what = "invalid"
        /\ Event.at + 1 < Len(input)
        /\ input[Event.at + 2] \notin ListedTriggers)
    => IsInvalidBackslash("BackslashEscapeUnknown", Event.at)

(* C10: with close = Some(d) and no unescaped d in the input the call      *)
(* never returns Ok; when every escape of the input is well formed it      *)
(* consumes the whole input and returns Err(MissingClose) rendering d.     *)
C10_MissingClose ==
    (Returned /\ ~sink_fails /\ IsSome(close) /\ Event.what # "close")
    => /\ result.tag # "Ok"
       /\ Event.what = "end"
          => /\ result.tag = "MissingClose"
             /\ result.string = <<Unwrap(close)>>
             /\ result.bytes = <<HexUpper(Unwrap(close) \div 16),
                                 HexUpper(Unwrap(close) % 16)>>
             /\ pos = Len(input)

-----------------------------------------------------------------------------
(* What the sink is to hold: the decoding of well-formed input.            *)

(* The byte C11 lists for each fixed escape:                               *)
(* \a 07, \b 08, \e \E 1B, \f 0C, \n 0A, \r 0D, \t 09, \v 0B,              *)
(* \\ 5C, \' 27, \" 22.                                                    *)
ListedFixedByte(byte2) ==
    CASE byte2 = 97 -> 7
      [] byte2 = 98 -> 8
      [] byte2 \in {101, 69} -> 27
      [] byte2 = 102 -> 12
      [] byte2 = 110 -> 10
      [] byte2 = 114 -> 13
      [] byte2 = 116 -> 9
      [] byte2 = 118 -> 11
      [] byte2 = 92 -> 92
      [] byte2 = 39 -> 39
      [] byte2 = 34 -> 34

(* The bytes the well-formed escape at offset i, ending before offset e,   *)
(* stands for.                                                             *)
EscapeValue(inp, i, e) ==
    LET byte2 == inp[i + 2]
    IN IF byte2 \in FixedTriggers THEN <<ListedFixedByte(byte2)>>
       ELSE IF byte2 \in 48..57 THEN <<Denoted(Slice(inp, i + 1, e), 8, 256)>>
       ELSE IF byte2 = 120 THEN <<Denoted(Slice(inp, i + 2, e), 16, 256)>>
       ELSE IF byte2 = 117 /\ inp[i + 3] = LBRACE THEN
           EncodeUtf8(Denoted(Slice(inp, i + 3, e - 1), 16, 1114112))
       ELSE IF byte2 \in {117, 85} THEN
           EncodeUtf8(Denoted(Slice(inp, i + 2, e), 16, 1114112))
       ELSE <<inp[i + 3] % 32>>

(* The decoding of inp[i .. stop), a stretch in which every backslash      *)
(* starts a well-formed escape: each escape gives its bytes, every other   *)
(* byte gives itself.                                                      *)
RECURSIVE Decoded(_, _, _)
Decoded(inp, i, stop) ==
    IF i >= stop THEN <<>>
    ELSE IF inp[i + 1] = BACKSLASH THEN
        LET e == EscapeEnd(inp, i)
        IN IF e < 0 THEN <<>>
           ELSE EscapeValue(inp, i, e) \o Decoded(inp, e, stop)
    ELSE <<inp[i + 1]>> \o Decoded(inp, i + 1, stop)

(* C11: when every escape up to the end of the input, or up to the first   *)
(* unescaped close delimiter, is well formed, the sink holds the decoding  *)
(* of that stretch: each fixed escape gave its one listed byte wherever it *)
(* stands, and every byte that is neither part of an escape nor the close  *)
(* delimiter was written unchanged and in input order.                     *)
C11_FixedEscapesAndPlainBytes ==
    (Returned /\ ~sink_fails /\ Event.what \in {"end", "close"})
    => out = Decoded(input, 0, Event.at)

(* The backslash at offset i starts an octal, \x, \u or \U escape that is  *)
(* not the braced form.                                                    *)
IsUnbracedNumeric(inp, i) ==
    /\ i + 1 < Len(inp)
    /\ inp[i + 1] = BACKSLASH
    /\ \/ inp[i + 2] \in (48..57) \cup {120, 85}
       \/ /\ inp[i + 2] = 117
          /\ ~(i + 2 < Len(inp) /\ inp[i + 3] = LBRACE)

(* C12: a step of the scan that takes a well-formed octal, \x, \u or \U    *)
(* escape consumes the digits of the escape and nothing else: the cursor   *)
(* stands right after the last digit, so the first byte outside the digit  *)
(* alphabet is still there for the next step, the sink gained the value of *)
(* the digits, and the scan goes on.                                       *)
C12_LookaheadLeavesNextByte ==
    [][(/\ state = "Scanning"
        /\ ~sink_fails
        /\ IsUnbracedNumeric(input, pos)
        /\ EscapeEnd(input, pos) >= 0)
       => /\ pos' = EscapeEnd(input, pos)
          /\ out' = out \o EscapeValue(input, pos, EscapeEnd(input, pos))
          /\ state' = "Scanning"]_vars

(* C13: when the first backslash of the input that starts no well-formed   *)
(* escape stands at offset i (before any unescaped close delimiter), the   *)
(* call returns Err(InvalidBackslash) with offset i, the sink holds        *)
(* exactly the decoding of input[0 .. i) and no byte of the failed escape; *)
(* unescape_bytes in particular returns Err and no buffer.                 *)
C13_FailsOnFirstInvalidEscape ==
    (Returned /\ ~sink_fails /\ Event.what = "invalid")
    => /\ result.tag = "InvalidBackslash"
       /\ result.offset = Event.at
       /\ out = Decoded(input, 0, Event.at)
       /\ IsUnescapeBytes => unescape_bytes.tag = "InvalidBackslash"

(* The offset at which the last item of the scan begins, when the scan     *)
(* runs from offset p to the end of inp with no close delimiter: an item   *)
(* is a byte that is no backslash, or a backslash with everything its      *)
(* escape consumes.  last is the start of the item before p; -1 when an    *)
(* escape fails.                                                           *)
RECURSIVE LastItemStart(_, _, _)
LastItemStart(inp, p, last) ==
    IF p >= Len(inp) THEN last
    ELSE IF inp[p + 1] # BACKSLASH THEN LastItemStart(inp, p + 1, p)
    ELSE IF p + 1 = Len(inp) THEN p
    ELSE LET r == EscapeArm(inp, p)
         IN IF r.ok THEN LastItemStart(inp, r.pos, p) ELSE -1

CollectedOctal(inp, i) ==
    <<inp[i + 2]>>
    \o SelectSeq(Slice(inp, i + 2, IF i + 4 <= Len(inp) THEN i + 4 ELSE Len(inp)),
                 LAMBDA b : b \in 48..57)

(* The scan stands at the backslash of an octal escape whose collected     *)
(* digits are all in 0-7.                                                  *)
AtOctalEscape ==
    /\ state = "Scanning"
    /\ pos + 1 < Len(input)
    /\ input[pos + 1] = BACKSLASH
    /\ input[pos + 2] \in 48..57
    /\ AllDigits(CollectedOctal(input, pos), 8)

(* C15 as stated: an octal escape made only of digits 0-7 never fails with *)
(* an overflow or radix error, its value never exceeding 0377.             *)
C15_OctalNeverOverflows ==
    [][AtOctalEscape => result'.tag # "InvalidBackslash"]_vars

(* C15, amended: the digits collected for an octal escape made only of     *)
(* digits 0-7 parse into a single byte exactly when their value is at most *)
(* 0377; the three-digit escapes \400 to \777 fail with                    *)
(* OctalDigitsNotOctalDigits at the backslash's offset and write nothing.  *)
C15_OctalParsesUpTo0377 ==
    [][(AtOctalEscape /\ ~sink_fails)
       => LET v == Denoted(CollectedOctal(input, pos), 8, 512)
          IN IF v <= 255
             THEN /\ state' = "Scanning"
                  /\ out' = Append(out, v)
             ELSE /\ state' = "Failed"
                  /\ result'.tag = "InvalidBackslash"
                  /\ result'.kind.name = "OctalDigitsNotOctalDigits"
                  /\ result'.offset = pos
                  /\ out' = out]_vars

(* An octal escape of three digits 0-7 above 0377 was taken as the first   *)
(* item and failed.                                                        *)
C15_Witness ==
    /\ state = "Failed" /\ ~sink_fails
    /\ Len(input) >= 4
    /\ input[1] = BACKSLASH /\ input[2] \in 52..55
    /\ input[3] \in 48..55 /\ input[4] \in 48..55
    /\ IsInvalidBackslash("OctalDigitsNotOctalDigits", 0)
    /\ out = <<>>

(* C16: a step of the scan that takes a \x with no hex digit immediately   *)
(* after the x (the input ends there, or the next byte is no hex digit)    *)
(* fails with HexDigitsNoDigits at the backslash's offset, whatever comes  *)
(* later in the input.                                                     *)
C16_HexNeedsDigitAtOnce ==
    [][(/\ state = "Scanning"
        /\ ~sink_fails
        /\ pos + 1 < Len(input)
        /\ input[pos + 1] = BACKSLASH
        /\ input[pos + 2] = 120
        /\ DigitRun(input, pos + 2, 16, 1) = 0)
       => /\ state' = "Failed"
          /\ result'.tag = "InvalidBackslash"
          /\ result'.kind.name = "HexDigitsNoDigits"
          /\ result'.offset = pos
          /\ out' = out]_vars

(* The byte at offset o lies inside an escape sequence, after its          *)
(* backslash, when inp is read from offset i on: it follows the backslash  *)
(* directly, or is a later byte of a well-formed escape.                   *)
RECURSIVE EscapedAt(_, _, _)
EscapedAt(inp, i, o) ==
    IF i >= Len(inp) \/ i >= o THEN FALSE
    ELSE IF inp[i + 1] # BACKSLASH THEN EscapedAt(inp, i + 1, o)
    ELSE IF o = i + 1 THEN TRUE
    ELSE LET e == EscapeEnd(inp, i)
         IN IF e < 0 THEN FALSE
            ELSE IF o < e THEN TRUE
            ELSE EscapedAt(inp, e, o)

(* C17: with close = Some(d), a d that lies inside an escape sequence (the *)
(* byte after the backslash, or a digit or key byte of a numeric or        *)
(* control escape) never ends the scan: no call returns Ok with the offset *)
(* of such a d.                                                            *)
C17_EscapedCloseDoesNotTerminate ==
    (Returned /\ IsSome(close) /\ result.tag = "Ok")
    => ~EscapedAt(input, 0, result.offset)

(* The scan of inp from offset p begins an item at offset o: it reaches o  *)
(* item by item, no escape failing and no close delimiter met before o.    *)
RECURSIVE IsItemStart(_, _, _, _)
IsItemStart(inp, d, p, o) ==
    IF p >= Len(inp) \/ p > o THEN FALSE
    ELSE IF p = o THEN TRUE
    ELSE IF inp[p + 1] = BACKSLASH THEN
        IF p + 1 = Len(inp) THEN FALSE
        ELSE LET r == EscapeArm(inp, p)
             IN r.ok /\ IsItemStart(inp, d, r.pos, o)
    ELSE IF IsSome(d) /\ inp[p + 1] = Unwrap(d) THEN FALSE
    ELSE IsItemStart(inp, d, p + 1, o)

(* The bytes after a backslash whose escape can fail with the kind. *)
KindTriggers(name) ==
    CASE name \in {"OctalDigitsNotUnicode", "OctalDigitsNotOctalDigits"}
             -> 48..57
      [] name = "HexDigitsNoDigits" -> {120}
      [] name \in {"HexDigitsNotUnicode", "HexDigitsNotHexDigits"}
             -> {120, 117, 85}
      [] name \in {"UnicodeEscapeNoDigits", "UnicodeEscapeEndOfString",
                   "UnicodeEscapeBadCodepoint"} -> {117, 85}
      [] name \in {"RustStyleUnicodeMissingCloseBrace",
                   "RustStyleUnicodeMissingDigits"} -> {117}
      [] name \in {"ControlEscapeBadKey", "ControlEscapeEndOfString"} -> {99}
      [] name = "BackslashEscapeUnknown" -> (0..255) \ ListedTriggers
      [] OTHER -> {}

C19_BracedMissingBraceOrDigits ==
    (/\ Returned /\ ~sink_fails
     /\ Event.what = "invalid"
     /\ Event.at + 2 < Len(input)
     /\ input[Event.at + 2] = 117
     /\ input[Event.at + 3] = LBRACE)
    => LET at == Event.at
           q  == FindCloseBrace(input, at + 3)
       IN /\ q >= Len(input)
             => /\ IsInvalidBackslash("RustStyleUnicodeMissingCloseBrace", at)
                /\ out = Decoded(input, 0, at)
          /\ (q < Len(input) /\ q = at + 3)
             => /\ IsInvalidBackslash("RustStyleUnicodeMissingDigits", at)
                /\ out = Decoded(input, 0, at)

(* C20: a braced escape \u{X} taken by the scan, X not empty and holding a *)
(* byte that is no hex digit (a leading sign such as + included), is       *)
(* rejected: the step fails with an InvalidBackslash error at the          *)
(* backslash's offset and writes nothing.                                  *)
C20_BracedNonHexRejected ==
    [][(/\ state = "Scanning"
        /\ ~sink_fails
        /\ pos + 2 < Len(input)
        /\ input[pos + 1] = BACKSLASH
        /\ input[pos + 2] = 117
        /\ input[pos + 3] = LBRACE
        /\ LET q == FindCloseBrace(input, pos + 3)
           IN /\ q < Len(input)
              /\ q > pos + 3
              /\ ~AllDigits(Slice(input, pos + 3, q), 16))
       => /\ state' = "Failed"
          /\ result'.tag = "InvalidBackslash"
          /\ result'.offset = pos
          /\ out' = out]_vars

(* C22: the sink never holds more bytes than the scan has consumed, each   *)
(* escape giving at most as many bytes as it took and each plain byte one, *)
(* and the scan never consumes more than the input: whenever unescape_bytes *)
(* returns Ok(out), out is no longer than the input, within the capacity   *)
(* input.len() the buffer was allocated with.                              *)
C22_OutputNotLongerThanInput ==
    /\ Len(out) <= pos
    /\ pos <= Len(input)
    /\ (BytesReturned /\ unescape_bytes.tag = "Ok")
       => Len(unescape_bytes.buffer) <= Len(input)

(* unescape_bytes returned a character of four UTF-8 bytes decoded from an *)
(* escape, and those bytes are not more than the input had.                *)
C22_Witness ==
    /\ BytesReturned
    /\ unescape_bytes.tag = "Ok"
    /\ Len(unescape_bytes.buffer) = 4
    /\ unescape_bytes.buffer[1] >= 240
    /\ input[1] = BACKSLASH
    /\ Len(input) \in 7..8

-----------------------------------------------------------------------------
(* Termination.  The runs are those of Spec over fewer inputs: every byte  *)
(* sequence over Alphabet up to LiveMaxLen bytes, the empty one included,  *)
(* and each complete escape of Prefixes followed by up to LiveMaxSuffix    *)
(* such bytes.                                                             *)
LiveMaxLen == 3

LiveMaxSuffix == 1

LiveInputs ==
    SeqsUpTo(Alphabet, LiveMaxLen)
    \cup {e \o t : e \in Prefixes, t \in SeqsUpTo(Alphabet, LiveMaxSuffix)}

LiveInit ==
    /\ input \in LiveInputs
    /\ close \in Closes
    /\ sink_fails \in BOOLEAN
    /\ pos = 0
    /\ out = <<>>
    /\ last_offset = None
    /\ state = "Scanning"
    /\ result = [tag |-> "None"]

(* unescape_iter is one sequential loop that nothing blocks: whenever a    *)
(* step of the scan is possible, one is taken.  Every step moves the       *)
(* cursor or changes the state, which is what the fairness condition       *)
(* counts as a step.                                                       *)
LiveSpec == LiveInit /\ [][Next]_vars /\ WF_<<pos, state>>(Next)

(* C21: for every input and every close setting the decode that starts in *)
(* Scanning ends in Done, with Ok, or in Failed, with Err: the scan always *)
(* terminates with a result.                                               *)
C21_EndsInDoneOrFailed ==
    <>(/\ state \in {"Done", "Failed"}
       /\ result.tag \in {"Ok", "MissingClose", "InvalidBackslash", "IOError"})

====
